---- MODULE Spec2Model ----
(***************************************************************************)
(* Model of SatelIntegraEmulator (satel_integra_ext/simulator.py).         *)
(*                                                                         *)
(* The emulator is a single asyncio event loop.  Each connection runs      *)
(* handle_client; its only suspension point is `await reader.readuntil`.   *)
(* process_command and the handlers it awaits contain no suspending await, *)
(* so one process_command call is one atomic step of the model.            *)
(*                                                                         *)
(* The codec (SatelMessage, list_set_bits, partition_bytes) lives in the   *)
(* satel_integra package, which is not part of the sources at hand; it is  *)
(* modelled from the specification's BitsetCodec section.                  *)
(***************************************************************************)
EXTENDS Integers, Sequences, FiniteSets, TLC

\* ------------------------------------------------------------------ bounds
\* Number of distinct connections (stream writers) the model considers.
NumWriters == 2

Writers == 1..NumWriters

\* `client=None` of send_response
NoClient == 0

\* ------------------------------------------------------- program constants
ZoneIndices == 1..32
OutputIndices == 1..32
PartitionIndices == 1..4

\* width in bytes of the access-code preamble skipped by the handlers
CodeBytes == 8
\* width in bytes of the partition / output bitmask read by the handlers
PartitionMaskBytes == 4
OutputMaskBytes == 32

RESPONSE_OK == [cmd |-> "RESULT", data |-> <<0>>]

RESPONSE_DEVICE_INFO ==
  [cmd |-> "DEVICE_INFO",
   data |-> <<1, 1, 0, 82, 117, 99, 104, 32, 119, 105, 97, 116, 114, 111,
              108, 97, 112, 32, 32>>]

\* AlarmState -> SatelCommand of the partition broadcast
ALARMSTATE_TO_CMD ==
  [s \in {"ARMED_MODE0", "ARMED_MODE1", "ARMED_MODE2", "ARMED_MODE3"} |-> s]

ArmCommands == {"ARM_MODE_0", "ARM_MODE_1", "ARM_MODE_2", "ARM_MODE_3"}
OutputCommands == {"OUTPUT_ON", "OUTPUT_OFF"}

\* the AlarmState an ARM_MODE_k command names
ModeOf(cmd) ==
  CASE cmd = "ARM_MODE_0" -> "ARMED_MODE0"
    [] cmd = "ARM_MODE_1" -> "ARMED_MODE1"
    [] cmd = "ARM_MODE_2" -> "ARMED_MODE2"
    [] cmd = "ARM_MODE_3" -> "ARMED_MODE3"
    [] OTHER -> "DISARMED"

\* ------------------------------------------------------------ bitset codec
Pow2 == <<1, 2, 4, 8, 16, 32, 64, 128>>

\* bit k (0 = least significant) of byte b
BitOf(b, k) == (b \div Pow2[k + 1]) % 2

\* byte and bit position of the 1-based index i, most significant bit first
ByteOf(i) == ((i - 1) \div 8) + 1
ShiftOf(i) == 7 - ((i - 1) % 8)

RECURSIVE ByteValue(_)
ByteValue(items) ==
  IF items = {} THEN 0
  ELSE LET i == CHOOSE x \in items : TRUE
       IN  Pow2[ShiftOf(i) + 1] + ByteValue(items \ {i})

\* partition_bytes(items, length): zero-filled buffer of `length` bytes with
\* the bit of every index set
partition_bytes(items, length) ==
  [j \in 1..length |-> ByteValue({ i \in items : ByteOf(i) = j })]

\* message.list_set_bits(offset, length) fails on a payload that does not
\* hold `length` bytes after `offset`
list_set_bits_raises(data, offset, length) == Len(data) < offset + length

\* message.list_set_bits(offset, length): the 1-based indices whose bit is
\* set in the `length` bytes that follow `offset`
list_set_bits(data, offset, length) ==
  UNION { { 8 * (j - 1) + k + 1 : k \in { b \in 0..7 : BitOf(data[offset + j], 7 - b) = 1 } } :
          j \in { x \in 1..length : data[offset + x] # 0 } }

\* -------------------------------------------------------------------- state
VARIABLES
  clients,     \* self.clients: the writers of the open connections
  running,     \* the connections whose handle_client is in its receive loop
  open,        \* the writers that have not been closed
  zones,       \* self.zones
  outputs,     \* self.outputs
  partitions,  \* self.partitions
  last,        \* the command processed by the latest step, with the state before it
  recv,        \* per writer: the frames written to it by the latest command
  lastOut,     \* per writer: the most recent OUTPUT_STATE frame written to it
  lastArm,     \* per writer: the most recent ARMED_MODE0 frame written to it
  current,     \* the task the event loop is running, NoClient when it is idle
  todo,        \* per connection: the command its handler is in and its next send
  notify       \* the progress of a call of notify_state_change

vars ==
  <<clients, running, open, zones, outputs, partitions, last, recv, lastOut, lastArm,
    current, todo, notify>>

NoFrame == [cmd |-> "NONE", data |-> <<>>]

DictInit(keys, v) == [k \in keys |-> v]

\* `for k in keys: d[k] = v` : assignment to a dict creates a missing key
DictSet(d, keys, v) ==
  [k \in (DOMAIN d) \cup keys |-> IF k \in keys THEN v ELSE d[k]]

NoCommand ==
  [cmd |-> "NONE", sender |-> NoClient, addr |-> {}, len |-> 0,
   raised |-> FALSE, writeFailed |-> FALSE, bad |-> {},
   clients |-> {}, zones |-> DictInit({}, FALSE),
   outputs |-> DictInit({}, FALSE), partitions |-> DictInit({}, "DISARMED")]

\* a connection task that waits in readuntil
Idle == [cmd |-> "NONE", addr |-> {}, payload |-> <<>>, next |-> 0]

\* no call of notify_state_change is in progress
NoNotify == [status |-> "idle", size |-> 0, visited |-> {}, registered |-> {}]

\* SatelIntegraEmulator.__init__
Init_zone_active ==
  /\ clients = {}
  /\ running = {}
  /\ open = {}
  /\ zones = [DictInit(ZoneIndices, FALSE) EXCEPT ![1] = TRUE]
  /\ outputs = DictInit(OutputIndices, FALSE)
  /\ partitions = DictInit(PartitionIndices, "DISARMED")
  /\ last = NoCommand
  /\ recv = [w \in Writers |-> <<>>]
  /\ lastOut = [w \in Writers |-> NoFrame]
  /\ lastArm = [w \in Writers |-> NoFrame]
  /\ current = NoClient
  /\ todo = [w \in Writers |-> Idle]
  /\ notify = NoNotify

Init ==
  /\ clients = {}
  /\ running = {}
  /\ open = {}
  /\ zones = DictInit(ZoneIndices, FALSE)
  /\ outputs = DictInit(OutputIndices, FALSE)
  /\ partitions = DictInit(PartitionIndices, "DISARMED")
  /\ last = NoCommand
  /\ recv = [w \in Writers |-> <<>>]
  /\ lastOut = [w \in Writers |-> NoFrame]
  /\ lastArm = [w \in Writers |-> NoFrame]
  /\ current = NoClient
  /\ todo = [w \in Writers |-> Idle]
  /\ notify = NoNotify

\* ------------------------------------------------------------ send_response
\* One call of send_response: the frame is encoded once and written to the
\* given client, or to the members of self.clients one after the other.  A
\* write that raises ends the loop and leaves send_response, so the call
\* reaches the writers the iteration visits before the first one that raises:
\* env.visited is that set (any subset of the healthy clients, the iteration
\* order of a set being arbitrary), env.bad the clients whose write raises.
send_response_one(message, client, env) ==
  IF client # NoClient
  THEN [frame |-> message, to |-> {client} \ env.bad, raises |-> client \in env.bad]
  ELSE [frame |-> message,
        to |-> IF env.visited = {} THEN {}
               ELSE env.visited \ {CHOOSE x \in env.visited : TRUE},
        raises |-> env.bad # {}]

send_response(message, client, env) ==
  IF client # NoClient
  THEN [frame |-> message, to |-> {client} \ env.bad, raises |-> client \in env.bad]
  ELSE [frame |-> message, to |-> env.visited, raises |-> env.bad # {}]

\* broadcast_outputs: OUTPUT_STATE listing the enabled outputs
broadcast_outputs(outs, env) ==
  LET enabled_outputs == { i \in DOMAIN outs : outs[i] }
      message == [cmd |-> "OUTPUT_STATE",
                  data |-> partition_bytes(enabled_outputs, OutputMaskBytes)]
  IN  send_response(message, NoClient, env)

\* broadcast_partitions(state): the partitions whose state equals `state`
broadcast_partitions(parts, state, env) ==
  LET ps == { i \in DOMAIN parts : parts[i] = state }
      message == [cmd |-> ALARMSTATE_TO_CMD[state],
                  data |-> partition_bytes(ps, PartitionMaskBytes)]
  IN  send_response(message, NoClient, env)

\* ----------------------------------------------------------------- handlers
\* A handler maps the device state to the state it leaves, the calls of
\* send_response it makes one after the other, and whether it raised before any of them.
Outcome(outs, parts, sends, raised) ==
  [outputs |-> outs, partitions |-> parts, sends |-> sends, raised |-> raised]


start_monitoring_swapped(outs, parts, writer, env) ==
  Outcome(outs, parts,
          << broadcast_outputs(outs, env),
             send_response(RESPONSE_OK, writer, env),
             broadcast_partitions(parts, "ARMED_MODE0", env) >>,
          FALSE)

start_monitoring(outs, parts, writer, env) ==
  Outcome(outs, parts,
          << send_response(RESPONSE_OK, writer, env),
             broadcast_outputs(outs, env),
             broadcast_partitions(parts, "ARMED_MODE0", env) >>,
          FALSE)

device_info(outs, parts, writer, env) ==
  Outcome(outs, parts, << send_response(RESPONSE_DEVICE_INFO, writer, env) >>, FALSE)

\* the state arm() writes into every addressed partition
ArmState(cmd) == "ARMED_MODE0"

\* the writer arm/disarm/set_output pass to send_response(RESPONSE_OK)
OkTarget(writer) == NoClient

arm_skip_unchanged(outs, parts, cmd, data, writer, env) ==
  IF list_set_bits_raises(data, CodeBytes, PartitionMaskBytes)
  THEN Outcome(outs, parts, <<>>, TRUE)
  ELSE LET ps == list_set_bits(data, CodeBytes, PartitionMaskBytes)
           parts2 == DictSet(parts, ps, ArmState(cmd))
       IN  IF parts2 = parts
           THEN Outcome(outs, parts, <<>>, FALSE)
           ELSE Outcome(outs, parts2,
                        << send_response(RESPONSE_OK, OkTarget(writer), env),
                           broadcast_partitions(parts2, "ARMED_MODE0", env) >>,
                        FALSE)

arm(outs, parts, cmd, data, writer, env) ==
  IF list_set_bits_raises(data, CodeBytes, PartitionMaskBytes)
  THEN Outcome(outs, parts, <<>>, TRUE)
  ELSE LET ps == list_set_bits(data, CodeBytes, PartitionMaskBytes)
           parts2 == DictSet(parts, ps, ArmState(cmd))
       IN  Outcome(outs, parts2,
                   << send_response(RESPONSE_OK, OkTarget(writer), env),
                      broadcast_partitions(parts2, "ARMED_MODE0", env) >>,
                   FALSE)

disarm_silent(outs, parts, data, writer, env) ==
  IF list_set_bits_raises(data, CodeBytes, PartitionMaskBytes)
  THEN Outcome(outs, parts, <<>>, TRUE)
  ELSE LET ps == list_set_bits(data, CodeBytes, PartitionMaskBytes)
           parts2 == DictSet(parts, ps, "DISARMED")
       IN  Outcome(outs, parts2,
                   << send_response(RESPONSE_OK, OkTarget(writer), env) >>,
                   FALSE)

disarm_all(outs, parts, data, writer, env) ==
  IF list_set_bits_raises(data, CodeBytes, PartitionMaskBytes)
  THEN Outcome(outs, parts, <<>>, TRUE)
  ELSE LET parts2 == DictSet(parts, DOMAIN parts, "DISARMED")
       IN  Outcome(outs, parts2,
                   << send_response(RESPONSE_OK, OkTarget(writer), env),
                      broadcast_partitions(parts2, "ARMED_MODE0", env) >>,
                   FALSE)

disarm(outs, parts, data, writer, env) ==
  IF list_set_bits_raises(data, CodeBytes, PartitionMaskBytes)
  THEN Outcome(outs, parts, <<>>, TRUE)
  ELSE LET ps == list_set_bits(data, CodeBytes, PartitionMaskBytes)
           parts2 == DictSet(parts, ps, "DISARMED")
       IN  Outcome(outs, parts2,
                   << send_response(RESPONSE_OK, OkTarget(writer), env),
                      broadcast_partitions(parts2, "ARMED_MODE0", env) >>,
                   FALSE)

set_output_stale(outs, parts, cmd, data, writer, env) ==
  IF list_set_bits_raises(data, CodeBytes, OutputMaskBytes)
  THEN Outcome(outs, parts, <<>>, TRUE)
  ELSE LET os == list_set_bits(data, CodeBytes, OutputMaskBytes)
           state == (cmd = "OUTPUT_ON")
           outs2 == DictSet(outs, os, state)
       IN  Outcome(outs2, parts,
                   << send_response(RESPONSE_OK, OkTarget(writer), env),
                      broadcast_outputs(outs, env) >>,
                   FALSE)

set_output_noskip(outs, parts, cmd, data, writer, env) ==
  IF list_set_bits_raises(data, CodeBytes, OutputMaskBytes)
  THEN Outcome(outs, parts, <<>>, TRUE)
  ELSE LET os == list_set_bits(data, 0, OutputMaskBytes)
           state == (cmd = "OUTPUT_ON")
           outs2 == DictSet(outs, os, state)
       IN  Outcome(outs2, parts,
                   << send_response(RESPONSE_OK, OkTarget(writer), env),
                      broadcast_outputs(outs2, env) >>,
                   FALSE)

set_output(outs, parts, cmd, data, writer, env) ==
  IF list_set_bits_raises(data, CodeBytes, OutputMaskBytes)
  THEN Outcome(outs, parts, <<>>, TRUE)
  ELSE LET os == list_set_bits(data, CodeBytes, OutputMaskBytes)
           state == (cmd = "OUTPUT_ON")
           outs2 == DictSet(outs, os, state)
       IN  Outcome(outs2, parts,
                   << send_response(RESPONSE_OK, OkTarget(writer), env),
                      broadcast_outputs(outs2, env) >>,
                   FALSE)

\* int((temp + 55) * 2) for temp = random.uniform(21, 24) lies in 152..158;
\* the model draws the two ends of the range
TempBytes == {152, 158}


read_temperature_broadcast(outs, parts, data, temp, writer, env) ==
  IF Len(data) = 0
  THEN Outcome(outs, parts, <<>>, TRUE)
  ELSE Outcome(outs, parts,
               << send_response([cmd |-> "ZONE_TEMP", data |-> <<data[1], 0, temp>>],
                                NoClient, env) >>,
               FALSE)

read_temperature(outs, parts, data, temp, writer, env) ==
  IF Len(data) = 0
  THEN Outcome(outs, parts, <<>>, TRUE)
  ELSE Outcome(outs, parts,
               << send_response([cmd |-> "ZONE_TEMP", data |-> <<data[1], 0, temp>>],
                                writer, env) >>,
               FALSE)

\* the if/elif chain of process_command
dispatch_ack_unknown(outs, parts, cmd, data, temp, writer, env) ==
  CASE cmd = "START_MONITORING" -> start_monitoring(outs, parts, writer, env)
    [] cmd = "DEVICE_INFO" -> device_info(outs, parts, writer, env)
    [] cmd \in ArmCommands -> arm(outs, parts, cmd, data, writer, env)
    [] cmd = "DISARM" -> disarm(outs, parts, data, writer, env)
    [] cmd \in OutputCommands -> set_output(outs, parts, cmd, data, writer, env)
    [] cmd = "READ_ZONE_TEMP" -> read_temperature(outs, parts, data, temp, writer, env)
    [] OTHER -> Outcome(outs, parts, << send_response(RESPONSE_OK, writer, env) >>, FALSE)

dispatch(outs, parts, cmd, data, temp, writer, env) ==
  CASE cmd = "START_MONITORING" -> start_monitoring(outs, parts, writer, env)
    [] cmd = "DEVICE_INFO" -> device_info(outs, parts, writer, env)
    [] cmd \in ArmCommands -> arm(outs, parts, cmd, data, writer, env)
    [] cmd = "DISARM" -> disarm(outs, parts, data, writer, env)
    [] cmd \in OutputCommands -> set_output(outs, parts, cmd, data, writer, env)
    [] cmd = "READ_ZONE_TEMP" -> read_temperature(outs, parts, data, temp, writer, env)
    [] OTHER -> Outcome(outs, parts, <<>>, FALSE)

\* ------------------------------------------------------------ socket writes
\* the send_response calls that are carried out: the exception of a failing
\* write leaves the handler, so no later call is made
RECURSIVE Performed(_)
Performed(sends) ==
  IF sends = <<>> THEN <<>>
  ELSE IF Head(sends).raises THEN << Head(sends) >>
  ELSE << Head(sends) >> \o Performed(Tail(sends))

WriteRaised(sends) == \E i \in 1..Len(sends) : sends[i].raises

\* the frames written to writer w, in order
FramesTo(sends, w) ==
  LET mine == SelectSeq(sends, LAMBDA x : w \in x.to)
  IN  [i \in 1..Len(mine) |-> mine[i].frame]

LatestOf(frames, cmd, old) ==
  LET hits == SelectSeq(frames, LAMBDA f : f.cmd = cmd)
  IN  IF Len(hits) = 0 THEN old ELSE hits[Len(hits)]

\* ------------------------------------------------------------------- inputs
\* the access code that precedes the bitmask
Preamble == [i \in 1..CodeBytes |-> 0]

\* a received message: command, payload and the index set the client encoded
Request(cmd, addr, payload) == [cmd |-> cmd, addr |-> addr, payload |-> payload]

PartitionRequest(cmd, m) ==
  Request(cmd, m, Preamble \o partition_bytes(m, PartitionMaskBytes))

OutputRequest(cmd, m) ==
  Request(cmd, m, Preamble \o partition_bytes(m, OutputMaskBytes))

\* the messages the clients send
Requests ==
  { Request(c, {}, <<>>) : c \in {"START_MONITORING", "DEVICE_INFO", "ZONES_VIOLATED"} }
  \cup { PartitionRequest("ARM_MODE_0", m) : m \in { {1}, {1, 3}, {5} } }
  \cup { PartitionRequest(c, {1}) : c \in {"ARM_MODE_1", "ARM_MODE_2", "ARM_MODE_3"} }
  \cup { PartitionRequest("DISARM", m) : m \in { {1}, {5} } }
  \cup { OutputRequest("OUTPUT_ON", m) : m \in { {5, 20}, {33} } }
  \cup { OutputRequest("OUTPUT_OFF", {5}) }
  \cup { Request(c, {}, Preamble) : c \in {"ARM_MODE_0", "OUTPUT_ON"} }
  \cup { Request("READ_ZONE_TEMP", {}, <<>>), Request("READ_ZONE_TEMP", {7}, <<7>>) }

\* What the writes of one command meet: env.bad, the clients whose write
\* raises, and env.visited, the healthy clients a loop over self.clients
\* visits before it meets one of them.
NoFailure == [bad |-> {}, visited |-> clients]

\* the write to one client fails
Failures ==
  UNION { { [bad |-> {b}, visited |-> v] : v \in SUBSET (clients \ {b}) } : b \in clients }

\* ------------------------------------------------------------------ actions
\* handle_client up to the loop: a new connection registers its writer
handle_client_open(w) ==
  /\ w \notin running
  /\ clients' = clients \cup {w}
  /\ running' = running \cup {w}
  /\ open' = open \cup {w}
  /\ last' = NoCommand
  /\ recv' = [x \in Writers |-> <<>>]
  /\ lastOut' = [lastOut EXCEPT ![w] = NoFrame]
  /\ lastArm' = [lastArm EXCEPT ![w] = NoFrame]
  /\ UNCHANGED <<zones, outputs, partitions, current, todo, notify>>

\* self.clients.remove(writer): set.remove raises KeyError for a missing element
unregister(cs, w) ==
  IF w \in cs THEN [clients |-> cs \ {w}, raises |-> FALSE]
  ELSE [clients |-> cs, raises |-> TRUE]

\* the record of a connection that ended: the state before it ended and
\* whether the remove of its writer raised
Closed(w) ==
  [NoCommand EXCEPT !.cmd = "CLOSED", !.sender = w, !.clients = clients,
                    !.raised = unregister(clients, w).raises,
                    !.zones = zones, !.outputs = outputs, !.partitions = partitions]

\* The `finally` of handle_client: the writer is removed from the set and
\* then closed; nothing is written.  An exception of remove leaves the block
\* before writer.close().
teardown_keeps_client(w) ==
  /\ running' = running \ {w}
  /\ clients' = clients
  /\ open' = open \ {w}

teardown(w) ==
  /\ running' = running \ {w}
  /\ clients' = unregister(clients, w).clients
  /\ open' = IF unregister(clients, w).raises THEN open ELSE open \ {w}

\* handle_client after the loop: readuntil raises (read error, peer close) or
\* decode_frame raises (malformed frame), or an empty read breaks the loop
handle_client_close(w) ==
  /\ w \in running
  /\ teardown(w)
  /\ last' = Closed(w)
  /\ recv' = [x \in Writers |-> <<>>]
  /\ lastOut' = [lastOut EXCEPT ![w] = NoFrame]
  /\ lastArm' = [lastArm EXCEPT ![w] = NoFrame]
  /\ UNCHANGED <<zones, outputs, partitions, current, todo, notify>>

\* `except Exception` of process_command: what a handler raises is caught
\* there and does not reach handle_client
process_command_reraises == FALSE

process_command_catches == TRUE

\* One iteration of the receive loop of connection w: a frame is read and
\* decoded, process_command runs its handler and catches what it raises.
\* obs selects what is recorded about the step: "step" records the command
\* and the frames it wrote, "sync" the latest state frames of every client.
process_command(w, req, temp, env, obs) ==
  /\ w \in running
  /\ req.cmd # "READ_ZONE_TEMP" => temp = 152
  /\ \E out \in {dispatch(outputs, partitions, req.cmd, req.payload, temp, w, env)} :
     \E done \in {Performed(out.sends)} :
         /\ outputs' = out.outputs
         /\ partitions' = out.partitions
         /\ IF (out.raised \/ WriteRaised(done)) /\ ~process_command_catches
            THEN teardown(w)
            ELSE UNCHANGED <<clients, running, open>>
         /\ IF obs = "step"
            THEN /\ recv' = [x \in Writers |-> FramesTo(done, x)]
                 /\ last' = [cmd |-> req.cmd, sender |-> w, addr |-> req.addr,
                             len |-> Len(req.payload), raised |-> out.raised,
                             writeFailed |-> WriteRaised(done), bad |-> env.bad,
                             clients |-> clients, zones |-> zones,
                             outputs |-> outputs, partitions |-> partitions]
                 /\ UNCHANGED <<lastOut, lastArm>>
            ELSE /\ lastOut' = [x \in Writers |->
                                  LatestOf(FramesTo(done, x), "OUTPUT_STATE", lastOut[x])]
                 /\ lastArm' = [x \in Writers |->
                                  LatestOf(FramesTo(done, x), "ARMED_MODE0", lastArm[x])]
                 /\ last' = NoCommand
                 /\ recv' = [x \in Writers |-> <<>>]
  /\ UNCHANGED <<zones, current, todo, notify>>

\* The finally block run once more for a connection whose loop has ended
\* already: the second unregister of the same client.
unregister_again(w) ==
  /\ w \notin running
  /\ teardown(w)
  /\ last' = Closed(w)
  /\ recv' = [x \in Writers |-> <<>>]
  /\ UNCHANGED <<zones, outputs, partitions, lastOut, lastArm, current, todo, notify>>

Next ==
  \/ \E w \in Writers : handle_client_open(w)
  \/ \E w \in Writers : handle_client_close(w)
  \/ \E w \in Writers, req \in Requests, temp \in TempBytes :
       process_command(w, req, temp, NoFailure, "step")

\* every write succeeds; the latest command is recorded
Spec == Init /\ [][Next]_vars

NextSync ==
  \/ \E w \in Writers : handle_client_open(w)
  \/ \E w \in Writers : handle_client_close(w)
  \/ \E w \in Writers, req \in Requests, temp \in TempBytes :
       process_command(w, req, temp, NoFailure, "sync")

\* every write succeeds; the latest state frames of every client are recorded
SpecSync == Init /\ [][NextSync]_vars

NextFail ==
  \/ \E w \in Writers : handle_client_open(w)
  \/ \E w \in Writers : handle_client_close(w)
  \/ \E w \in Writers, req \in Requests, temp \in TempBytes :
       process_command(w, req, temp, NoFailure, "step")
  \/ \E w \in Writers, req \in Requests, temp \in TempBytes, env \in Failures :
       process_command(w, req, temp, env, "step")

\* writes may raise; the latest command is recorded
SpecFail == Init /\ [][NextFail]_vars


NextAgain ==
  \/ \E w \in Writers : handle_client_open(w)
  \/ \E w \in Writers : handle_client_close(w)
  \/ \E w \in Writers, req \in Requests, temp \in TempBytes :
       process_command(w, req, temp, NoFailure, "step")
  \/ \E w \in Writers : unregister_again(w)

\* every write succeeds; a client may be unregistered a second time
SpecAgain == Init /\ [][NextAgain]_vars

\* ------------------------------------------------------- event-loop tasks
\* The same program at the grain of the event loop: every connection is a
\* task, the loop runs one task at a time, and a task gives the loop back
\* only where it awaits something that suspends.  handle_client suspends in
\* readuntil; the handlers await nothing that suspends, send_response being
\* a plain function.
handler_suspends_between_sends == TRUE

handler_suspends == FALSE

\* the task the loop runs after a step of task w that did not end w's handler
Holder(w) == IF handler_suspends THEN NoClient ELSE w

\* the record of a step of the handler of req on connection w
Step(w, req) == [NoCommand EXCEPT !.cmd = req.cmd, !.sender = w]

\* a state frame lists the state at the time it is written
send_now(s) ==
  CASE s.frame.cmd = "OUTPUT_STATE" -> broadcast_outputs(outputs, NoFailure)
    [] s.frame.cmd = "ARMED_MODE0" -> broadcast_partitions(partitions, "ARMED_MODE0", NoFailure)
    [] OTHER -> s

task_open(w) ==
  /\ current = NoClient
  /\ handle_client_open(w)

task_close(w) ==
  /\ current = NoClient
  /\ todo[w] = Idle
  /\ handle_client_close(w)

\* readuntil of connection w returns a frame: process_command enters the
\* handler, which runs up to its first call of send_response
task_begin(w, req) ==
  /\ current = NoClient
  /\ w \in running
  /\ todo[w] = Idle
  /\ \E out \in {dispatch(outputs, partitions, req.cmd, req.payload, 152, w, NoFailure)} :
       /\ outputs' = out.outputs
       /\ partitions' = out.partitions
       /\ IF out.sends = <<>>
          THEN UNCHANGED <<todo, current>>
          ELSE /\ todo' = [todo EXCEPT ![w] = [cmd |-> req.cmd, addr |-> req.addr,
                                               payload |-> req.payload, next |-> 1]]
               /\ current' = Holder(w)
  /\ last' = Step(w, req)
  /\ recv' = [x \in Writers |-> <<>>]
  /\ UNCHANGED <<clients, running, open, zones, lastOut, lastArm, notify>>

\* the next call of send_response of the handler connection w is in
task_send(w) ==
  /\ todo[w] # Idle
  /\ current = Holder(w)
  /\ \E out \in {dispatch(outputs, partitions, todo[w].cmd, todo[w].payload, 152, w, NoFailure)} :
     \E s \in {send_now(out.sends[todo[w].next])} :
       /\ recv' = [x \in Writers |-> IF x \in s.to THEN << s.frame >> ELSE <<>>]
       /\ IF todo[w].next = Len(out.sends)
          THEN /\ todo' = [todo EXCEPT ![w] = Idle]
               /\ current' = NoClient
          ELSE /\ todo' = [todo EXCEPT ![w].next = @ + 1]
               /\ current' = Holder(w)
  /\ last' = Step(w, todo[w])
  /\ UNCHANGED <<clients, running, open, zones, outputs, partitions, lastOut, lastArm, notify>>

NextTasks ==
  \/ \E w \in Writers : task_open(w)
  \/ \E w \in Writers : task_close(w)
  \/ \E w \in Writers, req \in Requests : task_begin(w, req)
  \/ \E w \in Writers : task_send(w)

\* the connection tasks under every schedule of the event loop
SpecTasks == Init /\ [][NextTasks]_vars

\* ------------------------------------------------------ notify_state_change
\* the task that calls notify_state_change
Notifier == NumWriters + 1

\* the frame of notify_state_change(OUTPUT_STATE, [5])
notify_frame == [cmd |-> "OUTPUT_STATE", data |-> partition_bytes({5}, PartitionMaskBytes)]

\* `for client in self.clients` starts: the iterator of the live set keeps
\* the size the set has now
notify_state_change(caller) ==
  /\ current = NoClient
  /\ notify.status \in {"idle", "done", "raised"}
  /\ notify' = [status |-> "iterating", size |-> Cardinality(clients),
                visited |-> {}, registered |-> clients]
  /\ current' = caller
  /\ last' = [NoCommand EXCEPT !.cmd = "NOTIFY", !.sender = caller]
  /\ recv' = [x \in Writers |-> <<>>]
  /\ UNCHANGED <<clients, running, open, zones, outputs, partitions, lastOut, lastArm, todo>>

\* One turn of the loop: the set iterator raises RuntimeError when the set
\* has changed its size since the loop began, and the `for` is outside the
\* try; otherwise it yields a member not yet visited (the order of a set is
\* arbitrary) or ends the loop.  The body writes the frame and awaits
\* drain(), which may suspend the task.
notify_next(caller) ==
  /\ \/ notify.status = "iterating" /\ current = caller
     \/ notify.status = "suspended" /\ current = NoClient
  /\ IF Cardinality(clients) # notify.size
     THEN /\ notify' = [notify EXCEPT !.status = "raised"]
          /\ current' = NoClient
          /\ recv' = [x \in Writers |-> <<>>]
     ELSE IF clients \ notify.visited = {}
     THEN /\ notify' = [notify EXCEPT !.status = "done"]
          /\ current' = NoClient
          /\ recv' = [x \in Writers |-> <<>>]
     ELSE \E client \in clients \ notify.visited, suspends \in BOOLEAN :
          /\ recv' = [x \in Writers |-> IF x = client THEN << notify_frame >> ELSE <<>>]
          /\ notify' = [notify EXCEPT !.visited = @ \cup {client},
                                      !.status = IF suspends THEN "suspended"
                                                 ELSE "iterating"]
          /\ current' = IF suspends THEN NoClient ELSE caller
  /\ last' = [NoCommand EXCEPT !.cmd = "NOTIFY", !.sender = caller]
  /\ UNCHANGED <<clients, running, open, zones, outputs, partitions, lastOut, lastArm, todo>>

NextNotify ==
  \/ \E w \in Writers : task_open(w)
  \/ \E w \in Writers : task_close(w)
  \/ \E w \in Writers, req \in Requests : task_begin(w, req)
  \/ \E w \in Writers : task_send(w)
  \/ notify_state_change(Notifier)
  \/ notify_next(Notifier)

\* the connection tasks and a caller of notify_state_change
SpecNotify == Init /\ [][NextNotify]_vars

\* ---------------------------------------------------------------- notions
MutatingCommands == ArmCommands \cup {"DISARM"} \cup OutputCommands

\* the latest step ran a handler to its end
Handled == last.cmd \notin {"NONE", "CLOSED"} /\ ~last.raised /\ ~last.writeFailed

ActiveOutputs == { i \in DOMAIN outputs : outputs[i] }
ArmedMode0 == { i \in DOMAIN partitions : partitions[i] = "ARMED_MODE0" }

\* the indices a state frame lists
Listed(frame) == list_set_bits(frame.data, 0, Len(frame.data))

\* the frames of the given commands among those written to w by the latest step
Received(w, cmds) == SelectSeq(recv[w], LAMBDA f : f.cmd \in cmds)

StateFrames == {"OUTPUT_STATE", "ARMED_MODE0"}
ResponseFrames == {"RESULT", "DEVICE_INFO", "ZONE_TEMP"}

\* the state frame a mutating command broadcasts
BroadcastOf(cmd) == IF cmd \in OutputCommands THEN "OUTPUT_STATE" ELSE "ARMED_MODE0"

\* ------------------------------------------------------------------ claims
\* C1: with any number of connected clients, a state-changing command sent by
\* any one of them delivers the same broadcast frame to every client that is
\* registered when the command is processed, the sender included.
C1_BroadcastFanOut ==
  (last.cmd \in MutatingCommands /\ Handled) =>
    /\ \A c \in last.clients :
         /\ Len(Received(c, StateFrames)) = 1
         /\ Received(c, StateFrames)[1].cmd = BroadcastOf(last.cmd)
    /\ \A c, d \in last.clients : Received(c, StateFrames) = Received(d, StateFrames)

C1_Witness ==
  /\ last.cmd = "OUTPUT_ON" /\ Handled
  /\ last.clients = Writers /\ last.sender = 1
  /\ \A c \in Writers : Len(Received(c, {"OUTPUT_STATE"})) = 1

\* C2: a successful mutating command is followed by a broadcast of the state
\* after the whole mutation: OUTPUT_STATE lists exactly the outputs that are
\* active after the command, ARMED_MODE0 exactly the partitions in ARMED_MODE0.
C2_BroadcastIsPostState ==
  (last.cmd \in MutatingCommands /\ Handled) =>
    \A c \in last.clients :
      /\ Received(c, {BroadcastOf(last.cmd)}) # <<>>
      /\ \A i \in 1..Len(recv[c]) :
           /\ recv[c][i].cmd = "OUTPUT_STATE" => Listed(recv[c][i]) = ActiveOutputs
           /\ recv[c][i].cmd = "ARMED_MODE0" => Listed(recv[c][i]) = ArmedMode0

C2_Witness ==
  /\ last.cmd = "OUTPUT_OFF" /\ Handled
  /\ { i \in DOMAIN last.outputs : last.outputs[i] } = {5, 20}
  /\ ActiveOutputs = {20}
  /\ \A c \in last.clients :
       /\ Received(c, {"OUTPUT_STATE"}) # <<>>
       /\ Listed(Received(c, {"OUTPUT_STATE"})[1]) = {20}

\* C3: for every connected client that has received an OUTPUT_STATE frame,
\* the most recent one lists exactly the currently active outputs; likewise
\* the most recent ARMED_MODE0 frame lists exactly the partitions currently in
\* ARMED_MODE0.
C3_ObserverSync ==
  \A c \in clients :
    /\ lastOut[c] # NoFrame => Listed(lastOut[c]) = ActiveOutputs
    /\ lastArm[c] # NoFrame => Listed(lastArm[c]) = ArmedMode0

C3_Witness ==
  /\ clients = Writers
  /\ \A c \in Writers : lastOut[c] # NoFrame /\ lastArm[c] # NoFrame
  /\ ActiveOutputs = {20}
  /\ ArmedMode0 = {3}

\* C4: for every k in 0..3, ARM_MODE_k sets each partition its bitmask
\* addresses to ARMED_MODE_k.
C4_ArmSetsNamedMode ==
  (last.cmd \in ArmCommands /\ Handled) =>
    \A p \in last.addr : p \in DOMAIN partitions /\ partitions[p] = ModeOf(last.cmd)

\* C5: the response to a command is delivered only to the client that sent
\* it; any other client receives broadcast frames only.
C5_ResponseIsUnicast ==
  last.cmd # "NONE" =>
    \A c \in last.clients \ {last.sender} : Received(c, ResponseFrames) = <<>>

\* C6: when the write to one client fails, every other registered client
\* still receives the broadcast frames of the command.
C6_DeliveryFailureIsolated ==
  (last.cmd \in MutatingCommands \cup {"START_MONITORING"} /\ ~last.raised /\ last.writeFailed) =>
    \A c \in last.clients \ last.bad :
      /\ last.cmd \in MutatingCommands =>
           Received(c, {BroadcastOf(last.cmd)}) # <<>>
      /\ last.cmd = "START_MONITORING" =>
           /\ Received(c, {"OUTPUT_STATE"}) # <<>>
           /\ Received(c, {"ARMED_MODE0"}) # <<>>

\* C7: OUTPUT_ON (OUTPUT_OFF) sets exactly the outputs its bitmask addresses
\* to active (inactive); every other output keeps its value and all partitions
\* and zones are unchanged.
C7_OutputIsolation ==
  (last.cmd \in OutputCommands /\ Handled) =>
    /\ \A i \in last.addr :
         i \in DOMAIN outputs /\ outputs[i] = (last.cmd = "OUTPUT_ON")
    /\ \A i \in (DOMAIN last.outputs) \ last.addr :
         i \in DOMAIN outputs /\ outputs[i] = last.outputs[i]
    /\ DOMAIN outputs = (DOMAIN last.outputs) \cup last.addr
    /\ partitions = last.partitions
    /\ zones = last.zones

C7_Witness ==
  /\ last.cmd = "OUTPUT_OFF" /\ Handled /\ last.addr = {5}
  /\ { i \in DOMAIN last.outputs : last.outputs[i] } = {5, 20}
  /\ ActiveOutputs = {20}
  /\ ArmedMode0 = {1, 3}

\* C8: ARM_MODE0 (DISARM) changes only the partitions its bitmask addresses,
\* to ARMED_MODE0 (DISARMED); every other partition keeps its state and all
\* outputs and zones are unchanged.
C8_PartitionIsolation ==
  (last.cmd \in {"ARM_MODE_0", "DISARM"} /\ Handled) =>
    /\ \A p \in last.addr :
         p \in DOMAIN partitions /\ partitions[p] = ModeOf(last.cmd)
    /\ \A p \in (DOMAIN last.partitions) \ last.addr :
         p \in DOMAIN partitions /\ partitions[p] = last.partitions[p]
    /\ DOMAIN partitions = (DOMAIN last.partitions) \cup last.addr
    /\ outputs = last.outputs
    /\ zones = last.zones

C8_Witness ==
  /\ last.cmd = "DISARM" /\ Handled /\ last.addr = {1}
  /\ { p \in DOMAIN last.partitions : last.partitions[p] = "ARMED_MODE0" } = {1, 3}
  /\ ArmedMode0 = {3}
  /\ \A p \in {1, 2, 4} : partitions[p] = "DISARMED"
  /\ ActiveOutputs = {5, 20}

\* the device state a request leaves when its handler runs on (outs, parts)
Effect(outs, parts, r) ==
  dispatch(outs, parts, r.cmd, r.payload, 152, NoClient, [bad |-> {}, visited |-> {}])

\* C9: an arm command for partitions already armed in that mode, or DISARM
\* for partitions already DISARMED, leaves the device state unchanged and
\* still sends its response and broadcasts the current state; an arm or
\* disarm command applied twice leaves the state it leaves when applied once.
C9_ArmDisarmIdempotent ==
  /\ ( /\ last.cmd \in ArmCommands \cup {"DISARM"}
       /\ Handled
       /\ \A p \in last.addr :
            p \in DOMAIN last.partitions /\ last.partitions[p] = ModeOf(last.cmd) )
     => /\ partitions = last.partitions
        /\ outputs = last.outputs
        /\ zones = last.zones
        /\ Received(last.sender, {"RESULT"}) # <<>>
        /\ \A c \in last.clients :
             /\ Received(c, {"ARMED_MODE0"}) # <<>>
             /\ Listed(Received(c, {"ARMED_MODE0"})[1]) = ArmedMode0
  /\ \A r \in { q \in Requests : q.cmd \in ArmCommands \cup {"DISARM"} } :
       LET once == Effect(outputs, partitions, r)
           twice == Effect(once.outputs, once.partitions, r)
       IN  /\ twice.partitions = once.partitions
           /\ twice.outputs = once.outputs

C9_Witness ==
  /\ last.cmd = "ARM_MODE_0" /\ Handled /\ last.addr = {1, 3}
  /\ last.partitions[1] = "ARMED_MODE0" /\ last.partitions[3] = "ARMED_MODE0"
  /\ partitions = last.partitions
  /\ last.clients = Writers
  /\ \A c \in Writers : Listed(Received(c, {"ARMED_MODE0"})[1]) = {1, 3}

\* C10: after any sequence of commands with arbitrary bitmasks the partition
\* indices held in the device state are exactly 1..4, the output indices
\* exactly 1..32 and the zone indices exactly 1..32.
C10_IndexRange ==
  /\ DOMAIN partitions = PartitionIndices
  /\ DOMAIN outputs = OutputIndices
  /\ DOMAIN zones = ZoneIndices

\* C11: in every reachable state the zone map holds the zones 1..32 and every
\* one of them is inactive, whatever commands the clients have sent.
C11_ZonesInactive ==
  /\ DOMAIN zones = 1..32
  /\ \A z \in 1..32 : zones[z] = FALSE
  /\ last.cmd # "NONE" => last.zones = zones

C11_Witness ==
  /\ last.cmd = "OUTPUT_ON" /\ Handled
  /\ last.clients = Writers
  /\ ActiveOutputs = {5, 20} /\ ArmedMode0 = {1, 3}
  /\ \A z \in 1..32 : ~zones[z]

\* C12: START_MONITORING changes no device state; its sender receives OK,
\* then OUTPUT_STATE listing the active outputs, then ARMED_MODE0 listing the
\* partitions in ARMED_MODE0, in that order; every other client receives the
\* two state frames and no response.
C12_StartMonitoring ==
  (last.cmd = "START_MONITORING" /\ Handled) =>
    /\ zones = last.zones /\ outputs = last.outputs /\ partitions = last.partitions
    /\ Len(recv[last.sender]) = 3
    /\ recv[last.sender][1] = RESPONSE_OK
    /\ recv[last.sender][2].cmd = "OUTPUT_STATE"
    /\ Listed(recv[last.sender][2]) = ActiveOutputs
    /\ recv[last.sender][3].cmd = "ARMED_MODE0"
    /\ Listed(recv[last.sender][3]) = ArmedMode0
    /\ \A c \in last.clients \ {last.sender} :
         recv[c] = <<recv[last.sender][2], recv[last.sender][3]>>

C12_Witness ==
  /\ last.cmd = "START_MONITORING" /\ Handled
  /\ last.clients = Writers /\ last.sender = 2
  /\ ActiveOutputs = {5, 20} /\ ArmedMode0 = {1}
  /\ Len(recv[1]) = 2 /\ Len(recv[2]) = 3

\* the latest step ran a command whose handler was left by an exception
Failed == last.cmd \notin {"NONE", "CLOSED"} /\ (last.raised \/ last.writeFailed)

\* C13: the client set is always the set of connections whose receive loop
\* runs, and these are the sockets that are not closed; no frame is written to
\* a writer outside the set; when a receive loop ends, nothing is written,
\* only that client leaves the set and the device state stays as it was; every
\* connection that is still running receives the broadcast of a later command.
C13_Teardown ==
  /\ clients = running
  /\ open = running
  /\ \A w \in Writers \ clients : recv[w] = <<>>
  /\ last.cmd = "CLOSED" =>
       /\ \A w \in Writers : recv[w] = <<>>
       /\ clients = last.clients \ {last.sender}
       /\ ~last.raised
       /\ last.sender \notin open
       /\ zones = last.zones /\ outputs = last.outputs /\ partitions = last.partitions
  /\ (last.cmd \in MutatingCommands /\ Handled) =>
       \A c \in running : Received(c, {BroadcastOf(last.cmd)}) # <<>>

C13_Witness ==
  /\ last.cmd = "CLOSED" /\ last.sender = 1
  /\ last.clients = Writers /\ clients = {2} /\ open = {2}
  /\ ActiveOutputs = {5, 20} /\ ArmedMode0 = {1}

\* C14: when a handler is left by an exception, the client set is what it was
\* before the command, the sender is still registered, its socket is open and
\* its receive loop runs, and so does the loop of every other connection.
C14_FailureContained ==
  Failed =>
    /\ clients = last.clients
    /\ last.sender \in clients
    /\ last.sender \in running /\ last.sender \in open
    /\ running = last.clients /\ open = last.clients

C14_Witness ==
  /\ last.cmd = "READ_ZONE_TEMP" /\ last.raised /\ last.sender = 1
  /\ last.clients = Writers /\ running = Writers /\ open = Writers

\* the command codes process_command has a branch for
KnownCommands ==
  {"START_MONITORING", "DEVICE_INFO", "DISARM", "READ_ZONE_TEMP"}
    \cup ArmCommands \cup OutputCommands

StateUnchanged ==
  zones = last.zones /\ outputs = last.outputs /\ partitions = last.partitions

\* C15: when the handler of a command fails, no frame at all is written to
\* any client, the device state is the state before the command and the
\* sender's connection stays open.
C15_FailedNotAcknowledged ==
  Failed =>
    /\ \A w \in Writers : recv[w] = <<>>
    /\ StateUnchanged
    /\ last.sender \in running /\ last.sender \in open

\* C16: a frame whose command code has no branch in process_command writes
\* no frame to any client, changes neither the device state nor the client
\* set, raises nothing, and leaves the sender's receive loop running.
C16_UnknownCommand ==
  (last.cmd \notin KnownCommands \cup {"NONE", "CLOSED"}) =>
    /\ \A w \in Writers : recv[w] = <<>>
    /\ StateUnchanged
    /\ clients = last.clients
    /\ ~last.raised /\ ~last.writeFailed
    /\ last.sender \in running /\ last.sender \in open

C16_Witness ==
  /\ last.cmd = "ZONES_VIOLATED" /\ last.sender = 1
  /\ last.clients = Writers /\ running = Writers
  /\ ActiveOutputs = {5, 20} /\ ArmedMode0 = {1, 3}

\* C17: DEVICE_INFO and READ_ZONE_TEMP leave the device state unchanged and
\* write exactly one frame, to the sender only: the static device-info
\* response, resp. a ZONE_TEMP frame whose first byte is the requested zone,
\* whose second is 0 and whose third encodes a temperature of 21..24 degrees.
C17_ReadOnlyUnicast ==
  (last.cmd \in {"DEVICE_INFO", "READ_ZONE_TEMP"} /\ Handled) =>
    /\ StateUnchanged
    /\ \A c \in Writers \ {last.sender} : recv[c] = <<>>
    /\ Len(recv[last.sender]) = 1
    /\ last.cmd = "DEVICE_INFO" => recv[last.sender][1] = RESPONSE_DEVICE_INFO
    /\ last.cmd = "READ_ZONE_TEMP" =>
         /\ recv[last.sender][1].cmd = "ZONE_TEMP"
         /\ Len(recv[last.sender][1].data) = 3
         /\ recv[last.sender][1].data[1] \in last.addr
         /\ recv[last.sender][1].data[2] = 0
         /\ recv[last.sender][1].data[3] \in 152..158

C17_Witness ==
  /\ last.cmd = "READ_ZONE_TEMP" /\ Handled /\ last.sender = 2
  /\ last.clients = Writers
  /\ recv[2] = << [cmd |-> "ZONE_TEMP", data |-> <<7, 0, 158>>] >>
  /\ ActiveOutputs = {5, 20}

InHandler == { w \in Writers : todo[w] # Idle }

\* C19: while the handler of one connection is between its state write and
\* its last frame write, the latest state write or frame write is its own,
\* so no other connection's command, open or close comes in between; every state frame lists the state at the time
\* it is written, and all clients get the same state frames in the same order.
C19_HandlerAtomic ==
  /\ Cardinality(InHandler) <= 1
  /\ \A w \in InHandler :
       /\ last.sender = w /\ last.cmd = todo[w].cmd
       /\ clients = running
  /\ \A c \in Writers : \A i \in 1..Len(recv[c]) :
       /\ recv[c][i].cmd = "OUTPUT_STATE" => Listed(recv[c][i]) = ActiveOutputs
       /\ recv[c][i].cmd = "ARMED_MODE0" => Listed(recv[c][i]) = ArmedMode0
  /\ \A c, d \in clients : Received(c, StateFrames) = Received(d, StateFrames)

C19_Witness ==
  /\ todo[1].cmd = "OUTPUT_ON" /\ todo[1].next = 2
  /\ clients = Writers /\ todo[2] = Idle
  /\ recv[2] = << RESPONSE_OK >>
  /\ ActiveOutputs = {5, 20} /\ ArmedMode0 = {1}

\* C20: a loop that delivers a frame to all clients is not disturbed by a
\* client that connects or disconnects while it is in progress: the loop of
\* notify_state_change ends by exhausting the set, never by an exception,
\* and every client that was registered when it began and still is
\* registered when it ends has been written the frame.
C20_SnapshotIteration ==
  notify.status \in {"done", "raised"} =>
    /\ notify.status = "done"
    /\ (notify.registered \cap clients) \subseteq notify.visited

====
